---- MODULE Spec2Model ----
(***************************************************************************)
(* A model of the lendsqr user service: the credential codec (bcryptjs),   *)
(* the user repository (models/User), the HTTP register and login routes,  *)
(* the database bootstrap (config/database, the users migration, the seed) *)
(* and the graceful shutdown of the server (index).                        *)
(*                                                                         *)
(* Strings that the code inspects (passwords, hashes) are sequences of     *)
(* one-character strings; strings it only stores or compares (emails,      *)
(* names) are TLA+ strings.                                                *)
(***************************************************************************)
EXTENDS Integers, Sequences, FiniteSets, TLC

VARIABLES
    users,      \* the rows of the users table: id -> row
    nextId,     \* the AUTO_INCREMENT counter of users.id
    now,        \* the storage engine's clock, what knex.fn.now() reads
    lastOp,     \* the repository call that ran last, with its arguments and outcome
    codec,      \* the inputs and outputs of the last codec evaluation
    tasks,      \* the HTTP requests in flight: task -> position, body, locals, response
    dbms,       \* the MySQL server: schemata, tables, the knex_migrations ledger
    proc        \* the node process: boot position, pool, server, signals, exit

vars == <<users, nextId, now, lastOp, codec, tasks, dbms, proc>>

----------------------------------------------------------------------------
(* Bounds of the model *)

MaxLen == 2      \* the longest password string drawn
MaxId == 2       \* the inserts the AUTO_INCREMENT counter may hand out
MaxClock == 1    \* the ticks of the storage engine's clock

Min(a, b) == IF a < b THEN a ELSE b

Str(chars, n) == UNION {[1..k -> chars] : k \in 0..n}

\* The passwords the repository and the routes are driven with: the empty
\* string, one that fills bcrypt's key exactly, and one that runs past it.
Passwords == {s \in Str({"a"}, MaxLen) : Len(s) \in {0, MaxLen - 1, MaxLen}}
\* The passwords the codec is evaluated on: a second character, so that
\* strings differ at a position and not only in length.
CodecPasswords == Str({"a", "b"}, MaxLen)
Emails == {"a@x.com", "b@x.com"}
Names == {"Ann", "Bob"}
Salts == {"s1", "s2"}

Undefined == [undefined |-> TRUE]    \* knex .first() on no row
Null == [null |-> TRUE]

----------------------------------------------------------------------------
(* Credential codec: bcryptjs behind hashPassword / verifyPassword *)

SALT_ROUNDS == "10"

\* bcrypt keys its cipher with the leading bytes of the password only (72 in
\* bcryptjs); the limit is scaled here to sit one below the longest string
\* drawn, so that strings on both sides of it exist.
BcryptKeyLen == MaxLen - 1

BcryptKey(password) == SubSeq(password, 1, Min(Len(password), BcryptKeyLen))

\* The digest part of a hash string: one output character per key byte, from
\* an alphabet disjoint from the passwords', padded to the fixed width.
BcryptDigest(key) ==
    [i \in 1..BcryptKeyLen |->
        IF i <= Len(key) THEN (IF key[i] = "a" THEN "A" ELSE "B") ELSE "."]

\* "$2b$" cost "$" salt digest; always the same length (60 in bcryptjs).
BcryptHash(password, rounds, salt) ==
    <<"$2b$", rounds, salt>> \o BcryptDigest(BcryptKey(password))

BcryptHashLen == 3 + BcryptKeyLen

\* bcrypt.compare: a hash of the wrong length compares false; otherwise the
\* password is hashed again with the cost and salt read from the hash.
BcryptCompare(plainPassword, hashedPassword) ==
    IF Len(hashedPassword) # BcryptHashLen
    THEN FALSE
    ELSE BcryptHash(plainPassword, hashedPassword[2], hashedPassword[3]) = hashedPassword

hashPassword(password, salt) == BcryptHash(password, SALT_ROUNDS, salt)

verifyPassword(plainPassword, hashedPassword) ==
    BcryptCompare(plainPassword, hashedPassword)

----------------------------------------------------------------------------
(* User repository: models/User over the users table *)

Ids == 1..MaxId

RowWithEmail(tbl, email) == {id \in DOMAIN tbl : tbl[id].email = email}

findUserByEmail(tbl, email) ==
    IF RowWithEmail(tbl, email) = {}
    THEN Undefined
    ELSE tbl[CHOOSE id \in RowWithEmail(tbl, email) : TRUE]

findUserById(tbl, id) == IF id \in DOMAIN tbl THEN tbl[id] ELSE Undefined

\* createUser without the hashing step.
CreateInsertData_Plaintext(userData, salt) ==
    [email |-> userData.email,
     first_name |-> userData.first_name,
     last_name |-> userData.last_name,
     password |-> userData.password]

\* The row createUser hands to insert: the rest of the input and the hash.
CreateInsertData(userData, salt) ==
    [email |-> userData.email,
     first_name |-> userData.first_name,
     last_name |-> userData.last_name,
     password |-> hashPassword(userData.password, salt)]

\* users without the unique index on email.
InsertRejected_NoUniqueIndex(tbl, data) == FALSE

\* insert into users: the unique index on email rejects a second row.
InsertRejected(tbl, data) == RowWithEmail(tbl, data.email) # {}

NoError == [none |-> TRUE]
DupEntryError == [code |-> "ER_DUP_ENTRY", errno |-> 1062]

InsertedRow(data, id, clock) ==
    [id |-> id, email |-> data.email, password |-> data.password,
     first_name |-> data.first_name, last_name |-> data.last_name,
     created_at |-> clock, updated_at |-> clock]

InsertRow(tbl, data, id, clock) ==
    [i \in DOMAIN tbl \cup {id} |->
        IF i = id THEN InsertedRow(data, id, clock) ELSE tbl[i]]

\* updateUser's updateData: a copy of updates, the password replaced by its
\* hash when updates.password is truthy.
Truthy(s) == Len(s) > 0

UpdateData(updates, salt) ==
    [k \in DOMAIN updates |->
        IF k = "password" /\ Truthy(updates.password)
        THEN hashPassword(updates.password, salt)
        ELSE updates[k]]

\* .where({id}).update({...updateData, updated_at: now()})
UpdateRows(tbl, id, updateData, clock) ==
    [i \in DOMAIN tbl |->
        IF i # id THEN tbl[i]
        ELSE [k \in DOMAIN tbl[i] |->
                IF k = "updated_at" THEN clock
                ELSE IF k \in DOMAIN updateData THEN updateData[k]
                ELSE tbl[i][k]]]

\* A delete that leaves the row in place.
DeleteRows_Soft(tbl, id) == tbl

\* .where({id}).del(): the table left, and the count of rows removed.
DeleteRows(tbl, id) == [i \in DOMAIN tbl \ {id} |-> tbl[i]]
DeleteCount(tbl, id) == Cardinality(DOMAIN tbl \cap {id})

\* verifyUserCredentials without the password comparison.
verifyUserCredentials_SkipCompare(tbl, email, password) ==
    LET user == findUserByEmail(tbl, email)
    IN  IF user = Undefined THEN Null ELSE user

verifyUserCredentials(tbl, email, password) ==
    LET user == findUserByEmail(tbl, email)
    IN  IF user = Undefined THEN Null
        ELSE IF verifyPassword(password, user.password) THEN user ELSE Null

\* sanitizeUser returning the user as read.
sanitizeUser_Whole(user) == user

sanitizeUser(user) == [k \in DOMAIN user \ {"password"} |-> user[k]]

CreateInputs ==
    [email : Emails, password : Passwords, first_name : Names, last_name : {"Lee"}]

\* The partial updates drawn: a password, a first name, or both; and objects
\* that carry an email beside a first name, which UpdateUserInput accepts
\* from any value that is not an object literal (its properties are all
\* optional, and only a literal is checked for excess ones).
UpdateInputs ==
    {[password |-> p] : p \in Passwords}
    \cup {[first_name |-> n] : n \in Names}
    \cup {[password |-> p, first_name |-> n] : p \in Passwords, n \in Names}
    \cup {[first_name |-> n, email |-> e] : n \in Names, e \in Emails}

\* update users: the unique index on email rejects a row taking an email
\* another row holds.
UpdateRejected(tbl, id, updateData) ==
    /\ id \in DOMAIN tbl
    /\ "email" \in DOMAIN updateData
    /\ RowWithEmail(tbl, updateData.email) \ {id} # {}

\* updateUser from the update on: the table left, what the call settles to.
UpdateTable(tbl, id, updateData, clock) ==
    IF UpdateRejected(tbl, id, updateData) THEN tbl
    ELSE UpdateRows(tbl, id, updateData, clock)

UpdateThrew(tbl, id, updateData) ==
    IF UpdateRejected(tbl, id, updateData) THEN DupEntryError ELSE NoError

UpdateResult(tbl, id, updateData, clock) ==
    IF UpdateRejected(tbl, id, updateData) THEN Undefined
    ELSE findUserById(UpdateTable(tbl, id, updateData, clock), id)

CreateFailedError == [message |-> "Failed to create user"]

\* createUser from the insert on: the table left, and what the call settles to.
CreateTable(tbl, data, id, clock) ==
    IF InsertRejected(tbl, data) THEN tbl ELSE InsertRow(tbl, data, id, clock)

CreateThrew(tbl, data, id, clock) ==
    IF InsertRejected(tbl, data) THEN DupEntryError
    ELSE IF findUserById(CreateTable(tbl, data, id, clock), id) = Undefined
         THEN CreateFailedError
         ELSE NoError

CreateResult(tbl, data, id, clock) ==
    IF CreateThrew(tbl, data, id, clock) # NoError THEN Undefined
    ELSE findUserById(CreateTable(tbl, data, id, clock), id)

----------------------------------------------------------------------------
(* Repository calls made one at a time *)

IdleCodec == [op |-> "none"]
NoTasks == <<>>
NoDbms == [schemata |-> {}]
NoProc == [pc |-> "none"]

InitRepo ==
    /\ users = <<>>
    /\ nextId = 1
    /\ now = 0
    /\ lastOp = [op |-> "none"]
    /\ codec = IdleCodec
    /\ tasks = NoTasks
    /\ dbms = NoDbms
    /\ proc = NoProc

Tick ==
    /\ now < MaxClock
    /\ now' = now + 1
    /\ lastOp' = [op |-> "tick"]
    /\ UNCHANGED <<users, nextId, codec, tasks, dbms, proc>>

CreateUser ==
    \E userData \in CreateInputs, salt \in Salts :
        LET data == CreateInsertData(userData, salt)
        IN  /\ nextId <= MaxId
            /\ users' = CreateTable(users, data, nextId, now)
            /\ nextId' = IF InsertRejected(users, data) THEN nextId ELSE nextId + 1
            /\ lastOp' = [op |-> "createUser", input |-> userData,
                          threw |-> CreateThrew(users, data, nextId, now),
                          result |-> CreateResult(users, data, nextId, now)]
            /\ UNCHANGED <<now, codec, tasks, dbms, proc>>

FindUserByEmail ==
    \E email \in Emails :
        /\ lastOp' = [op |-> "findUserByEmail", email |-> email,
                      result |-> findUserByEmail(users, email)]
        /\ UNCHANGED <<users, nextId, now, codec, tasks, dbms, proc>>

FindUserById ==
    \E id \in Ids :
        /\ lastOp' = [op |-> "findUserById", id |-> id,
                      result |-> findUserById(users, id)]
        /\ UNCHANGED <<users, nextId, now, codec, tasks, dbms, proc>>

UpdateUser ==
    \E id \in Ids, updates \in UpdateInputs, salt \in Salts :
        /\ users' = UpdateTable(users, id, UpdateData(updates, salt), now)
        /\ lastOp' = [op |-> "updateUser", id |-> id, updates |-> updates,
                      threw |-> UpdateThrew(users, id, UpdateData(updates, salt)),
                      result |-> UpdateResult(users, id, UpdateData(updates, salt), now)]
        /\ UNCHANGED <<nextId, now, codec, tasks, dbms, proc>>

DeleteUser ==
    \E id \in Ids :
        /\ users' = DeleteRows(users, id)
        /\ lastOp' = [op |-> "deleteUser", id |-> id,
                      result |-> DeleteCount(users, id)]
        /\ UNCHANGED <<nextId, now, codec, tasks, dbms, proc>>

VerifyUserCredentials ==
    \E email \in Emails, password \in Passwords :
        /\ lastOp' = [op |-> "verifyUserCredentials", email |-> email,
                      password |-> password,
                      result |-> verifyUserCredentials(users, email, password)]
        /\ UNCHANGED <<users, nextId, now, codec, tasks, dbms, proc>>

Next ==
    \/ CreateUser
    \/ FindUserByEmail
    \/ FindUserById
    \/ UpdateUser
    \/ DeleteUser
    \/ VerifyUserCredentials

Spec == InitRepo /\ [][Next]_vars

\* Accounts only created and read back.
NextCreate == CreateUser \/ FindUserByEmail \/ FindUserById

SpecCreate == InitRepo /\ [][NextCreate]_vars

\* The same calls with the storage engine's clock running.
NextTimed == Tick \/ Next

SpecTimed == InitRepo /\ [][NextTimed]_vars

----------------------------------------------------------------------------
(* HTTP routes: POST /api/register and POST /api/login, requests in flight *)

Tasks == {"t1", "t2", "t3"}

\* registerSchema / loginSchema on what the model draws: emails and names are
\* drawn well-formed, so the password decides. loginSchema asks for one
\* character; registerSchema's minimum is scaled to the same.
registerSchemaOk(body) == Len(body.password) >= 1
loginSchemaOk(body) == Len(body.password) >= 1

Bodies == [email : Emails, password : Passwords, firstName : {"Ann"}, lastName : {"Lee"}]

NoBody == [none |-> TRUE]
NoRes == [status |-> 0]
IdleTask == [pc |-> "idle", kind |-> "none", body |-> NoBody, userId |-> 0, res |-> NoRes]

ValidationFailed == [status |-> 400, body |-> [error |-> "Validation failed"]]

EmailInUse ==
    [status |-> 409,
     body |-> [error |-> "Email already in use",
               message |-> "A user with this email already exists"]]

Registered(newUser) ==
    [status |-> 201,
     body |-> [success |-> TRUE, data |-> sanitizeUser(newUser),
               message |-> "User registered successfully"]]

InvalidCredentials ==
    [status |-> 401,
     body |-> [success |-> FALSE, error |-> "Invalid credentials",
               message |-> "Incorrect email or password"]]

LoggedIn(user) ==
    [status |-> 200,
     body |-> [success |-> TRUE, user |-> sanitizeUser(user),
               message |-> "Login successful"]]

\* The error handling middleware, on what a route passed to next(error).
ErrorMiddleware(err) ==
    IF "code" \in DOMAIN err /\ err.code = "ER_DUP_ENTRY"
    THEN [status |-> 409,
          body |-> [success |-> FALSE, error |-> "Duplicate Entry",
                    message |-> "A record with this information already exists"]]
    ELSE [status |-> 500,
          body |-> [success |-> FALSE, error |-> "Error", message |-> err.message]]

InitHttp ==
    /\ users = <<>>
    /\ nextId = 1
    /\ now = 0
    /\ lastOp = [op |-> "none"]
    /\ codec = IdleCodec
    /\ tasks = [t \in Tasks |-> IdleTask]
    /\ dbms = NoDbms
    /\ proc = NoProc

Reply(t, res) == tasks' = [tasks EXCEPT ![t].pc = "done", ![t].res = res]

\* A request arrives and its body is parsed.
Receive(t) ==
    \E kind \in {"register", "login"}, body \in Bodies :
        /\ tasks[t].pc = "idle"
        /\ tasks' = [tasks EXCEPT ![t].pc = "validate", ![t].kind = kind, ![t].body = body]
        /\ UNCHANGED <<users, nextId, now, lastOp, codec, dbms, proc>>

\* register: safeParse, then the findUserByEmail pre-check.
RegisterCheck(t) ==
    /\ tasks[t].pc = "validate" /\ tasks[t].kind = "register"
    /\ IF ~registerSchemaOk(tasks[t].body)
       THEN Reply(t, ValidationFailed)
       ELSE IF findUserByEmail(users, tasks[t].body.email) # Undefined
       THEN Reply(t, EmailInUse)
       ELSE tasks' = [tasks EXCEPT ![t].pc = "create"]
    /\ UNCHANGED <<users, nextId, now, lastOp, codec, dbms, proc>>

\* register: createUser up to its insert (the hash, then the insert).
RegisterInsert(t) ==
    \E salt \in Salts :
        LET body == tasks[t].body
            data == CreateInsertData([email |-> body.email, password |-> body.password,
                                      first_name |-> body.firstName,
                                      last_name |-> body.lastName], salt)
        IN  /\ tasks[t].pc = "create"
            /\ InsertRejected(users, data) \/ nextId <= MaxId
            /\ users' = CreateTable(users, data, nextId, now)
            /\ nextId' = IF InsertRejected(users, data) THEN nextId ELSE nextId + 1
            /\ IF InsertRejected(users, data)
               THEN Reply(t, ErrorMiddleware(DupEntryError))
               ELSE tasks' = [tasks EXCEPT ![t].pc = "reread", ![t].userId = nextId]
            /\ UNCHANGED <<now, lastOp, codec, dbms, proc>>

\* register: createUser's re-read by id, sanitizeUser and the 201.
RegisterReread(t) ==
    /\ tasks[t].pc = "reread"
    /\ IF findUserById(users, tasks[t].userId) = Undefined
       THEN Reply(t, ErrorMiddleware(CreateFailedError))
       ELSE Reply(t, Registered(findUserById(users, tasks[t].userId)))
    /\ UNCHANGED <<users, nextId, now, lastOp, codec, dbms, proc>>

\* login: safeParse, verifyUserCredentials, sanitizeUser and the reply.
Login(t) ==
    /\ tasks[t].pc = "validate" /\ tasks[t].kind = "login"
    /\ IF ~loginSchemaOk(tasks[t].body)
       THEN Reply(t, ValidationFailed)
       ELSE IF verifyUserCredentials(users, tasks[t].body.email, tasks[t].body.password) = Null
       THEN Reply(t, InvalidCredentials)
       ELSE Reply(t, LoggedIn(verifyUserCredentials(users, tasks[t].body.email,
                                                    tasks[t].body.password)))
    /\ UNCHANGED <<users, nextId, now, lastOp, codec, dbms, proc>>

NextHttp ==
    \E t \in Tasks :
        \/ Receive(t)
        \/ RegisterCheck(t)
        \/ RegisterInsert(t)
        \/ RegisterReread(t)
        \/ Login(t)

SpecHttp == InitHttp /\ [][NextHttp]_vars


----------------------------------------------------------------------------
(* Codec evaluations: hashPassword, then verifyPassword against the hash *)

InitCodec ==
    /\ users = <<>>
    /\ nextId = 1
    /\ now = 0
    /\ lastOp = [op |-> "none"]
    /\ codec = IdleCodec
    /\ tasks = NoTasks
    /\ dbms = NoDbms
    /\ proc = NoProc

HashPassword ==
    \E password \in CodecPasswords, salt \in Salts :
        /\ codec' = [op |-> "hash", password |-> password,
                     hash |-> hashPassword(password, salt)]
        /\ UNCHANGED <<users, nextId, now, lastOp, tasks, dbms, proc>>

VerifyPassword ==
    \E plainPassword \in CodecPasswords :
        /\ codec.op # "none"
        /\ codec' = [op |-> "verify", password |-> codec.password, hash |-> codec.hash,
                     plain |-> plainPassword,
                     result |-> verifyPassword(plainPassword, codec.hash)]
        /\ UNCHANGED <<users, nextId, now, lastOp, tasks, dbms, proc>>

NextCodec == HashPassword \/ VerifyPassword

SpecCodec == InitCodec /\ [][NextCodec]_vars

----------------------------------------------------------------------------
(* Database bootstrap: initializeDatabase, the users migration, the seed *)

MaxBoots == 2      \* the times the process is started against the same server
MaxSignals == 2    \* the shutdown signals delivered to one process

DbName == "lendsqr"
UsersMigration == "20240731130000_create_users_table"
Envs == {"unset", "development", "test", "production"}

FreshDbms == [schemata |-> {}, tables |-> {}, ledger |-> {}]

Ok(d) == [dbms |-> d, err |-> "none"]
Failed(d, e) == [dbms |-> d, err |-> e]

\* SELECT SCHEMA_NAME FROM INFORMATION_SCHEMA.SCHEMATA WHERE SCHEMA_NAME = ?
SchemaRows(d, dbName) == Cardinality(d.schemata \cap {dbName})

CreateDatabase(d, dbName) ==
    IF dbName \in d.schemata
    THEN Failed(d, "ER_DB_CREATE_EXISTS")
    ELSE Ok([d EXCEPT !.schemata = @ \cup {dbName}])

\* initializeDatabase issuing CREATE DATABASE without the catalog query.
ensureDatabaseExists_AlwaysCreate(d, dbName) == CreateDatabase(d, dbName)

\* initializeDatabase's try block on the temporary connection.
ensureDatabaseExists(d, dbName) ==
    IF SchemaRows(d, dbName) = 0 THEN CreateDatabase(d, dbName) ELSE Ok(d)

hasTable(d, t) == t \in d.tables

createTable(d, t) ==
    IF t \in d.tables
    THEN Failed(d, "ER_TABLE_EXISTS_ERROR")
    ELSE Ok([d EXCEPT !.tables = @ \cup {t}])

\* The migration's up(): create users unless it is there.
up(d) == IF ~hasTable(d, "users") THEN createTable(d, "users") ELSE Ok(d)

\* knex migrate.latest(): make the ledger table if absent, run the migrations
\* the ledger does not list, record them.
migrateLatest(d) ==
    LET withLedger == [d EXCEPT !.tables = @ \cup {"knex_migrations"}]
    IN  IF UsersMigration \in withLedger.ledger
        THEN Ok(withLedger)
        ELSE IF up(withLedger).err # "none"
        THEN Failed(up(withLedger).dbms, up(withLedger).err)
        ELSE Ok([up(withLedger).dbms EXCEPT !.ledger = @ \cup {UsersMigration}])

\* if (process.env.NODE_ENV !== 'test') await db.migrate.latest()
MigrateUnlessTest(env, d) == IF env # "test" THEN migrateLatest(d) ELSE Ok(d)

\* The rows of users after a schema step: a table just created is empty.
RowsAfter(d, d2, tbl) ==
    IF hasTable(d2, "users") /\ ~hasTable(d, "users") THEN <<>> ELSE tbl

\* The seed: skipped without the table or with any row in it; else two users
\* sharing one hash.
SeedPassword == [i \in 1..(MaxLen - 1) |-> "a"]
SeedSkipped(d, tbl) == ~hasTable(d, "users") \/ DOMAIN tbl # {}

SeedRows(tbl, id, clock, salt) ==
    LET password == hashPassword(SeedPassword, salt)
        admin == [email |-> "admin@example.com", password |-> password,
                  first_name |-> "Admin", last_name |-> "User"]
        user == [email |-> "user@example.com", password |-> password,
                 first_name |-> "Regular", last_name |-> "User"]
    IN  InsertRow(InsertRow(tbl, admin, id, clock), user, id + 1, clock)

----------------------------------------------------------------------------
(* The node process: boot, serving, graceful shutdown *)

OffProc ==
    [pc |-> "off", env |-> "unset", boots |-> 0, pool |-> "none", server |-> "none",
     conns |-> 0, closeCbs |-> 0, timers |-> 0, signals |-> 0,
     destroyCalls |-> 0, destroying |-> 0, exit |-> -1, exitBy |-> "none",
     err |-> "none"]

InitBoot ==
    /\ users = <<>>
    /\ nextId = 1
    /\ now = 0
    /\ lastOp = [op |-> "none"]
    /\ codec = IdleCodec
    /\ tasks = NoTasks
    /\ dbms = FreshDbms
    /\ proc = OffProc

Exited(p, code, by, e) ==
    [p EXCEPT !.pc = "off", !.exit = code, !.exitBy = by, !.err = e]

\* node dist/index.js under some NODE_ENV.
StartProcess ==
    \E env \in Envs :
        /\ proc.pc = "off"
        /\ proc.boots < MaxBoots
        /\ proc' = [OffProc EXCEPT !.pc = "ensure", !.env = env, !.boots = proc.boots + 1]
        /\ UNCHANGED <<users, nextId, now, lastOp, codec, tasks, dbms>>

\* initializeDatabase: the temporary connection, the catalog query, CREATE
\* DATABASE; a failure rejects db, and startServer's catch exits.
EnsureDatabaseExists ==
    \E reachable \in BOOLEAN :
        LET r == IF reachable THEN ensureDatabaseExists(dbms, DbName)
                 ELSE Failed(dbms, "ECONNREFUSED")
        IN  /\ proc.pc = "ensure"
            /\ dbms' = r.dbms
            /\ proc' = IF r.err = "none" THEN [proc EXCEPT !.pc = "connect"]
                       ELSE Exited(proc, 1, "startup", r.err)
            /\ UNCHANGED <<users, nextId, now, lastOp, codec, tasks>>

\* initializeDatabase with a catch that logs and carries on.
ConnectOutcome_CarryOn(p, alive) ==
    IF alive THEN [p EXCEPT !.pc = "migrate", !.pool = "open"]
    ELSE [p EXCEPT !.pc = "migrate", !.pool = "unchecked", !.err = "ECONNREFUSED"]

\* initializeDatabase after db.raw('SELECT 1'): on with the open pool, or the
\* catch: db.destroy() and process.exit(1).
ConnectOutcome(p, alive) ==
    IF alive THEN [p EXCEPT !.pc = "migrate", !.pool = "open"]
    ELSE Exited([p EXCEPT !.pool = "destroyed"], 1, "startup", "ECONNREFUSED")

\* initializeDatabase: the pooled handle and SELECT 1; on failure the catch
\* destroys the pool and exits.
ConnectPool ==
    \E alive \in BOOLEAN :
        /\ proc.pc = "connect"
        /\ proc' = ConnectOutcome(proc, alive)
        /\ UNCHANGED <<users, nextId, now, lastOp, codec, tasks, dbms>>

\* initializeDatabase: migrate.latest() outside test mode, then return db.
InitMigrate ==
    LET r == MigrateUnlessTest(proc.env, dbms)
    IN  /\ proc.pc = "migrate"
        /\ dbms' = r.dbms
        /\ users' = RowsAfter(dbms, r.dbms, users)
        /\ proc' = IF r.err = "none" THEN [proc EXCEPT !.pc = "start"]
                   ELSE Exited([proc EXCEPT !.pool = "destroyed"], 1, "startup", r.err)
        /\ UNCHANGED <<nextId, now, lastOp, codec, tasks>>

\* startServer: migrate.latest() again outside test mode.
StartMigrate ==
    LET r == MigrateUnlessTest(proc.env, dbms)
    IN  /\ proc.pc = "start"
        /\ dbms' = r.dbms
        /\ users' = RowsAfter(dbms, r.dbms, users)
        /\ proc' = IF r.err # "none" THEN Exited(proc, 1, "startup", r.err)
                   ELSE IF proc.env = "development" THEN [proc EXCEPT !.pc = "seed"]
                   ELSE [proc EXCEPT !.pc = "listen"]
        /\ UNCHANGED <<nextId, now, lastOp, codec, tasks>>

\* startServer: seed.run() in development.
SeedRun ==
    \E salt \in Salts :
        /\ proc.pc = "seed"
        /\ users' = IF SeedSkipped(dbms, users) THEN users
                    ELSE SeedRows(users, nextId, now, salt)
        /\ nextId' = IF SeedSkipped(dbms, users) THEN nextId ELSE nextId + 2
        /\ proc' = [proc EXCEPT !.pc = "listen"]
        /\ UNCHANGED <<now, lastOp, codec, tasks, dbms>>

\* startServer: app.listen and the SIGTERM / SIGINT handlers.
Listen ==
    /\ proc.pc = "listen"
    /\ proc' = [proc EXCEPT !.pc = "serving", !.server = "listening"]
    /\ UNCHANGED <<users, nextId, now, lastOp, codec, tasks, dbms>>

\* The destroy() calls one 'close' event leads to: each waiting callback
\* runs up to its await of (await db).destroy().
DestroysStarted(p) == p.closeCbs

\* The server's 'close' event, emitted on the next tick once the listening
\* handle is closed and no connection is left: every waiting callback runs.
CloseEvent(p) ==
    [p EXCEPT !.server = "closed", !.closeCbs = 0,
              !.destroyCalls = @ + DestroysStarted(p),
              !.destroying = @ + DestroysStarted(p)]

Drained(p) == p.server # "listening" /\ p.conns = 0

CloseIfDrained(p) == IF Drained(p) THEN CloseEvent(p) ELSE p

\* A client connection with a request in flight opens, and ends.
ConnOpen ==
    /\ proc.pc = "serving" /\ proc.server = "listening" /\ proc.conns = 0
    /\ proc' = [proc EXCEPT !.conns = 1]
    /\ UNCHANGED <<users, nextId, now, lastOp, codec, tasks, dbms>>

ConnEnd ==
    /\ proc.pc = "serving" /\ proc.conns > 0
    /\ proc' = CloseIfDrained([proc EXCEPT !.conns = @ - 1])
    /\ UNCHANGED <<users, nextId, now, lastOp, codec, tasks, dbms>>

\* server.close(cb) inside gracefulShutdown: the callback waits for 'close',
\* the listening handle is closed, and a drained server emits 'close'.
ServerClose(p) ==
    CloseIfDrained([p EXCEPT !.closeCbs = @ + 1,
                             !.server = IF @ = "listening" THEN "closing" ELSE @])

\* gracefulShutdown without the forced-shutdown timer.
ForceTimer_Unset(p) == p

\* setTimeout(..., 10000) inside gracefulShutdown.
ForceTimer(p) == [p EXCEPT !.timers = @ + 1]

\* SIGTERM or SIGINT: gracefulShutdown runs.
gracefulShutdown ==
    \E sig \in {"SIGTERM", "SIGINT"} :
        /\ proc.pc = "serving"
        /\ proc.signals < MaxSignals
        /\ proc' = [ForceTimer(ServerClose(proc)) EXCEPT !.signals = @ + 1]
        /\ UNCHANGED <<users, nextId, now, lastOp, codec, tasks, dbms>>

\* A destroy() settles: process.exit(0), or process.exit(1) from the catch.
DestroySettled ==
    \E resolved \in BOOLEAN :
        /\ proc.pc = "serving" /\ proc.destroying > 0
        /\ proc' = IF resolved
                   THEN Exited([proc EXCEPT !.pool = "destroyed", !.destroying = @ - 1],
                               0, "closed", "none")
                   ELSE Exited([proc EXCEPT !.destroying = @ - 1], 1, "closeError", "destroy")
        /\ UNCHANGED <<users, nextId, now, lastOp, codec, tasks, dbms>>

\* The 10 second timer fires: process.exit(1).
ForceShutdown ==
    /\ proc.pc = "serving" /\ proc.timers > 0
    /\ proc' = Exited(proc, 1, "deadline", "none")
    /\ UNCHANGED <<users, nextId, now, lastOp, codec, tasks, dbms>>

NextBoot ==
    \/ StartProcess
    \/ EnsureDatabaseExists
    \/ ConnectPool
    \/ InitMigrate
    \/ StartMigrate
    \/ SeedRun
    \/ Listen
    \/ ConnOpen
    \/ ConnEnd
    \/ gracefulShutdown
    \/ DestroySettled
    \/ ForceShutdown

SpecBoot == InitBoot /\ [][NextBoot]_vars

\* The event loop runs a timer that is due.
SpecBootFair == SpecBoot /\ WF_vars(ForceShutdown)

----------------------------------------------------------------------------
(* Properties *)

IsUser(r) == "email" \in DOMAIN r

\* C1: a successful createUser(email, p, ...) persists and returns a password
\* different from p, and so does every later findUserByEmail / findUserById,
\* in every state reached by creating accounts.
C1_CreateNeverStoresPlaintext ==
    /\ [][(lastOp'.op = "createUser" /\ lastOp'.threw = NoError) =>
            /\ lastOp'.result.password # lastOp'.input.password
            /\ users'[lastOp'.result.id].password # lastOp'.input.password
            /\ findUserByEmail(users', lastOp'.input.email).password # lastOp'.input.password
            /\ findUserById(users', lastOp'.result.id).password # lastOp'.input.password
            /\ \A id \in DOMAIN users : users'[id] = users[id]]_vars
    /\ [](\A id \in DOMAIN users : users[id].password \notin Passwords)
    /\ []((lastOp.op \in {"findUserByEmail", "findUserById"} /\ IsUser(lastOp.result)) =>
            /\ lastOp.result.password \notin Passwords
            /\ lastOp.result = users[lastOp.result.id])

\* A second account has been created and one is read back by email.
C1_Witness ==
    /\ lastOp.op = "findUserByEmail"
    /\ IsUser(lastOp.result)
    /\ Cardinality(DOMAIN users) = 2

UniqueEmails ==
    \A i \in DOMAIN users : \A j \in DOMAIN users :
        users[i].email = users[j].email => i = j

DuplicateEmail == [name |-> "DuplicateEmail"]

C3_UpdateHashesPassword ==
    [][(/\ lastOp'.op = "updateUser"
        /\ lastOp'.id \in DOMAIN users
        /\ "password" \in DOMAIN lastOp'.updates) =>
            /\ users'[lastOp'.id].password # lastOp'.updates.password
            /\ \E salt \in Salts :
                  users'[lastOp'.id].password = hashPassword(lastOp'.updates.password, salt)]_vars

\* C4: after updateUser(id, {password: new}) on a user whose password was old,
\* old # new, verifyUserCredentials(email, new) returns the user and
\* verifyUserCredentials(email, old) returns null.
C4_NewPasswordReplacesOld ==
    [][(/\ lastOp'.op = "updateUser"
        /\ lastOp'.id \in DOMAIN users
        /\ "password" \in DOMAIN lastOp'.updates) =>
            LET email == users[lastOp'.id].email
                new == lastOp'.updates.password
            IN  /\ verifyUserCredentials(users', email, new) = users'[lastOp'.id]
                /\ \A old \in Passwords :
                      (old # new /\ verifyPassword(old, users[lastOp'.id].password)) =>
                          verifyUserCredentials(users', email, old) = Null]_vars

\* C5: verifyUserCredentials returns a user only when a row has the email and
\* the password verifies against that row's hash; it returns the same null
\* when no row has the email and when the password does not match; it leaves
\* the store alone.
C5_VerifyCredentials ==
    [][lastOp'.op = "verifyUserCredentials" =>
        /\ users' = users
        /\ nextId' = nextId
        /\ IsUser(lastOp'.result) =>
              \E id \in DOMAIN users :
                  /\ users[id].email = lastOp'.email
                  /\ verifyPassword(lastOp'.password, users[id].password)
                  /\ lastOp'.result = users[id]
        /\ RowWithEmail(users, lastOp'.email) = {} => lastOp'.result = Null
        /\ \A id \in RowWithEmail(users, lastOp'.email) :
              ~verifyPassword(lastOp'.password, users[id].password) => lastOp'.result = Null
        /\ \A id \in RowWithEmail(users, lastOp'.email) :
              verifyPassword(lastOp'.password, users[id].password) => lastOp'.result = users[id]
       ]_vars

\* An account exists and a wrong password for it has been answered null.
C5_Witness ==
    /\ lastOp.op = "verifyUserCredentials"
    /\ lastOp.result = Null
    /\ RowWithEmail(users, lastOp.email) # {}

\* C6: verifyPassword(p1, hashPassword(p2)) is true exactly when p1 = p2.
C6_VerifyIffEqual ==
    codec.op = "verify" => (codec.result <=> codec.plain = codec.password)

\* The user object of a 201 or 200 response.
ResponseUser(res) == IF res.status = 201 THEN res.body.data ELSE res.body.user

\* C7: the user in every successful register or login response has no
\* password field and is otherwise the stored row, field for field.
C7_ResponsesAreSanitized ==
    \A t \in Tasks :
        tasks[t].res.status \in {200, 201} =>
            LET u == ResponseUser(tasks[t].res)
            IN  /\ "password" \notin DOMAIN u
                /\ u.id \in DOMAIN users
                /\ DOMAIN u = DOMAIN users[u.id] \ {"password"}
                /\ \A k \in DOMAIN u : u[k] = users[u.id][k]

\* One request has registered an account and another has logged in to it.
C7_Witness ==
    \E t1 \in Tasks, t2 \in Tasks :
        /\ tasks[t1].res.status = 201
        /\ tasks[t2].res.status = 200

Provisioned(d) ==
    /\ DbName \in d.schemata
    /\ {"users", "knex_migrations"} \subseteq d.tables
    /\ UsersMigration \in d.ledger

\* C8: on a provisioned database, ensuring the database exists and applying
\* the migrations (inside initializeDatabase and again inside startServer)
\* change neither the schema nor the user rows and raise no duplicate-database
\* or duplicate-table error.
C8_SchemaInitIdempotent ==
    [][(Provisioned(dbms) /\ (EnsureDatabaseExists \/ InitMigrate \/ StartMigrate)) =>
        /\ dbms' = dbms
        /\ users' = users
        /\ proc'.err \notin {"ER_DB_CREATE_EXISTS", "ER_TABLE_EXISTS_ERROR"}]_vars

\* A second start has run both migration steps over a table holding rows.
C8_Witness ==
    /\ proc.boots = 2
    /\ proc.pc = "listen"
    /\ proc.env = "production"
    /\ DOMAIN users # {}

\* C9: whatever signals arrive, destroy is invoked on the pool never more than
\* once, and exactly once when the shutdown runs to its close.
C9_DestroyExactlyOnce ==
    /\ proc.destroyCalls <= 1
    /\ proc.exitBy = "closed" => proc.destroyCalls = 1

\* C10: after a shutdown signal the server has stopped accepting and the
\* deadline is set; the pool is destroyed only once the server has closed;
\* the exit status is 0 exactly when the destroy completed and 1 when the
\* deadline fired; and the process always comes to exit.
C10_ShutdownTerminates ==
    /\ []((proc.pc = "serving" /\ proc.signals > 0) =>
            (proc.server # "listening" /\ proc.timers > 0))
    /\ [](proc.destroyCalls > 0 => proc.server = "closed")
    /\ [](proc.exitBy = "closed" => (proc.exit = 0 /\ proc.pool = "destroyed"))
    /\ [](proc.exitBy = "deadline" => proc.exit = 1)
    /\ []((proc.signals > 0 /\ proc.exit = 0) => proc.exitBy = "closed")
    /\ ((proc.pc = "serving" /\ proc.signals > 0) ~> proc.pc = "off")

\* The deadline has fired while a destroy was still running.
C10_Witness ==
    /\ proc.exitBy = "deadline"
    /\ proc.destroying > 0

\* C11: a failed SELECT 1 on the new pool ends in the pool destroyed and the
\* process exited with status 1, nothing listening; whatever runs past
\* initializeDatabase runs on a pool whose SELECT 1 succeeded, and outside
\* test mode only with the migrations applied.
C11_LivenessFailureIsFatal ==
    /\ [][(ConnectPool /\ proc'.pool # "open") =>
            /\ proc'.pc = "off"
            /\ proc'.exit = 1
            /\ proc'.pool = "destroyed"
            /\ proc'.server = "none"]_vars
    /\ [](proc.pc \in {"migrate", "start", "seed", "listen", "serving"} => proc.pool = "open")
    /\ [](proc.server # "none" => proc.pool \in {"open", "destroyed"} /\ proc.exitBy # "startup")
    /\ []((proc.pc \in {"start", "seed", "listen", "serving"} /\ proc.env # "test") =>
            /\ UsersMigration \in dbms.ledger
            /\ hasTable(dbms, "users"))

\* SELECT 1 has failed on a second start, against a server that answered the
\* catalog query.
C11_Witness ==
    /\ proc.pc = "off"
    /\ proc.exitBy = "startup"
    /\ proc.pool = "destroyed"
    /\ proc.exit = 1
    /\ proc.boots = 2


\* C12: whatever the partial fields, updateUser(id, updates) on an existing id
\* leaves the row's email, id and created_at as they were and stamps
\* updated_at with the time of the call.
C12_EmailImmutable ==
    [][(UpdateUser /\ lastOp'.id \in DOMAIN users) =>
            /\ lastOp'.id \in DOMAIN users'
            /\ users'[lastOp'.id].email = users[lastOp'.id].email
            /\ users'[lastOp'.id].id = users[lastOp'.id].id
            /\ users'[lastOp'.id].created_at = users[lastOp'.id].created_at
            /\ users'[lastOp'.id].updated_at = now]_vars


\* C13: deleteUser(id) on an existing id returns 1 and removes that row alone;
\* on a missing id it returns 0 and leaves the table as it was, and a deleted
\* id never comes back, so every later delete of it is of the second kind.
\* updateUser on a missing id returns undefined, throws nothing and leaves
\* the table as it was.
C13_DeleteIdempotentOnAbsence ==
    /\ [][lastOp'.op = "deleteUser" =>
            IF lastOp'.id \in DOMAIN users
            THEN /\ lastOp'.result = 1
                 /\ DOMAIN users' = DOMAIN users \ {lastOp'.id}
                 /\ \A i \in DOMAIN users' : users'[i] = users[i]
            ELSE /\ lastOp'.result = 0
                 /\ users' = users]_vars
    /\ [][\A id \in Ids : (id < nextId /\ id \notin DOMAIN users) => id \notin DOMAIN users']_vars
    /\ [][(lastOp'.op = "updateUser" /\ lastOp'.id \notin DOMAIN users) =>
            /\ lastOp'.result = Undefined
            /\ lastOp'.threw = NoError
            /\ users' = users]_vars

\* A second deleteUser of an id that was there, beside a row that stays.
C13_Witness ==
    /\ lastOp.op = "deleteUser"
    /\ lastOp.result = 0
    /\ lastOp.id < nextId
    /\ lastOp.id \notin DOMAIN users
    /\ DOMAIN users # {}


\* The requests that are registrations of email e with a body the schema accepts.
RegistersOf(e) ==
    {t \in Tasks : /\ tasks[t].kind = "register"
                   /\ registerSchemaOk(tasks[t].body)
                   /\ tasks[t].body.email = e}

\* C14: of the register requests that carry one email, however their steps
\* interleave, at most one inserts a row and is answered 201, each one that is
\* answered gets 201 or 409, once all are answered exactly one got 201, and
\* the table never holds two rows with one email.
C14_OneRegistrationWins ==
    /\ UniqueEmails
    /\ \A e \in Emails :
          LET R == RegistersOf(e)
              inserted == {t \in R : tasks[t].userId # 0}
              won == {t \in R : tasks[t].res.status = 201}
          IN  /\ Cardinality(inserted) = Cardinality(RowWithEmail(users, e))
              /\ Cardinality(inserted) <= 1
              /\ won \subseteq inserted
              /\ \A t \in R : tasks[t].pc = "done" => tasks[t].res.status \in {201, 409}
              /\ (R # {} /\ \A t \in R : tasks[t].pc = "done") => Cardinality(won) = 1

\* Three registrations of one email: one created, one stopped by the
\* pre-check, one by the duplicate-key error of the insert.
C14_Witness ==
    \E e \in Emails : \E t1 \in Tasks, t2 \in Tasks, t3 \in Tasks :
        /\ RegistersOf(e) = {t1, t2, t3}
        /\ tasks[t1].res.status = 201
        /\ tasks[t2].res = EmailInUse
        /\ tasks[t3].res = ErrorMiddleware(DupEntryError)

====
